---- MODULE Spec2Model ----
(***************************************************************************)
(* A model of build-scripts/gen-ui-info.py: the recursive dictionary merge *)
(* (dict_merge), the comment parser (parse_comments), the source scanner   *)
(* (parse_source_code), the map-file parser (parse_mapfile) and the        *)
(* assembly of the report tree (main).                                     *)
(*                                                                         *)
(* Python dictionaries are mutable objects that are shared by reference,   *)
(* so they live in a heap: a sequence of dictionary objects addressed by   *)
(* their index.  A value is either a scalar (anything that is not a dict)  *)
(* or a reference to a dictionary object of the heap.                      *)
(***************************************************************************)
EXTENDS Integers, Sequences, FiniteSets, TLC

VARIABLES
    heap,       \* the dictionary objects allocated so far
    a,          \* dict_merge's accumulator: the value merged into
    b,          \* dict_merge's addend
    b0,         \* the contents of b when it was built
    a0,         \* the contents of a when it was built
    c,          \* a second addend, built later (NoValue until then)
    res,        \* the contents of the result after each call of dict_merge
    comments,   \* parse_comments: the comment string given
    clines,     \* parse_comments: comments.split('\n')
    ci,         \* parse_comments: the index of the next line of the loop
    coutput,    \* parse_comments: output
    cfield,     \* parse_comments: field
    cvalue,     \* parse_comments: value
    cstatus,    \* parse_comments: "scan", "done" or the exception raised
    mlines,     \* parse_mapfile: the lines of the map file
    mi,         \* parse_mapfile: how many lines the file iterator f has given
    mline,      \* parse_mapfile: line, the line of the current turn of the loop
    moutput,    \* parse_mapfile: output
    mstatus,    \* parse_mapfile: "scan", "done" or the exception raised
    sfiles,     \* parse_source_code: the '.c' files of the walk, each its lines
    sf,         \* parse_source_code: the index of the file that is open
    si,         \* parse_source_code: how many lines the file iterator f has given
    scomments,  \* parse_source_code: comments
    soutput,    \* parse_source_code: output
    sstatus,    \* parse_source_code: "walk", "scan", "done" or the exception raised
    args,       \* main: the command line arguments and the files they name
    report,     \* main: output
    parts,      \* main: the contents of each dictionary merged into output, as returned
    pc,         \* main: the next step, "done" or the exception raised
    printed     \* main: the tree that was printed (NoValue until then)

mergeVars == <<a, b, b0, a0, c, res>>
commentVars == <<comments, clines, ci, coutput, cfield, cvalue, cstatus>>
mapVars == <<mlines, mi, mline, moutput, mstatus>>
sourceVars == <<sfiles, sf, si, scomments, soutput, sstatus>>
mainVars == <<args, report, parts, pc, printed>>

vars == <<heap, mergeVars, commentVars, mapVars, sourceVars, mainVars>>

-----------------------------------------------------------------------------
(* Values and the heap *)

Scalar(x) == [t |-> "s", v |-> x]
Ref(r) == [t |-> "d", r |-> r]
NoValue == [t |-> "none"]

\* isinstance(v, dict)
IsDict(v) == v.t = "d"

\* {} : a dictionary object remembers its keys in insertion order
EmptyDict == [ord |-> <<>>, val |-> [k \in {} |-> NoValue]]

\* d[key] = value on the object at address r
SetItem(h, r, key, value) ==
    [h EXCEPT ![r] =
        [ord |-> IF key \in DOMAIN @.val THEN @.ord ELSE Append(@.ord, key),
         val |-> [k \in (DOMAIN @.val) \cup {key} |->
                    IF k = key THEN value ELSE @.val[k]]]]

\* The contents of a value as an immutable tree: what json.dumps would print.
RECURSIVE DeepVal(_, _)
DeepVal(h, v) ==
    IF IsDict(v)
    THEN [t |-> "d", m |-> [k \in DOMAIN h[v.r].val |-> DeepVal(h, h[v.r].val[k])]]
    ELSE v

EmptyTree == [t |-> "d", m |-> [k \in {} |-> NoValue]]
IsTree(d) == d.t = "d"

\* An arbitrary but fixed enumeration of a finite set (a literal's key order).
RECURSIVE SetToSeq(_)
SetToSeq(S) ==
    IF S = {} THEN <<>>
    ELSE LET x == CHOOSE y \in S : TRUE IN <<x>> \o SetToSeq(S \ {x})

\* Build a tree as fresh objects of the heap (a dict literal): the heap after
\* the allocation and the value built.
RECURSIVE Alloc(_, _), AllocItems(_, _, _, _)
AllocItems(h, r, d, ks) ==
    IF ks = <<>> THEN h
    ELSE LET sub == Alloc(h, d.m[Head(ks)])
         IN  AllocItems(SetItem(sub.h, r, Head(ks), sub.v), r, d, Tail(ks))
Alloc(h, d) ==
    IF IsTree(d)
    THEN LET r == Len(h) + 1
         IN  [h |-> AllocItems(Append(h, EmptyDict), r, d, SetToSeq(DOMAIN d.m)),
              v |-> Ref(r)]
    ELSE [h |-> h, v |-> d]

-----------------------------------------------------------------------------
(* dict_merge *)

RECURSIVE dict_merge(_, _, _), MergeItems(_, _, _, _)

\* A merge that stores nothing for a key the accumulator lacks.
MergeItemDropNew(h, ar, key, value) ==
    IF key \in DOMAIN h[ar].val
    THEN LET m == dict_merge(h, h[ar].val[key], value)
         IN  SetItem(m.h, ar, key, m.v)
    ELSE h

\* A merge that refills an existing sub-dictionary in place: a[key].clear()
\* followed by a[key].update(value).
MergeItemRefill(h, ar, key, value) ==
    IF key \in DOMAIN h[ar].val
    THEN IF IsDict(h[ar].val[key]) /\ IsDict(value)
         THEN LET t  == h[ar].val[key].r
                  h1 == [h EXCEPT ![t] = EmptyDict]
              IN  [h1 EXCEPT ![t] = h1[value.r]]
         ELSE SetItem(h, ar, key, value)
    ELSE SetItem(h, ar, key, value)

\* A merge that stores b's value whatever a holds under the key.
MergeItemShallow(h, ar, key, value) == SetItem(h, ar, key, value)

\* The body of the loop: one (key, value) of b stored into a.
MergeItem(h, ar, key, value) ==
    IF key \in DOMAIN h[ar].val
    THEN LET m == dict_merge(h, h[ar].val[key], value)
         IN  SetItem(m.h, ar, key, m.v)
    ELSE SetItem(h, ar, key, value)

\* for (key, value) in b.items(): a live view of b, read in insertion order.
MergeItems(h, ar, br, i) ==
    IF i > Len(h[br].ord) THEN h
    ELSE LET key == h[br].ord[i]
         IN  MergeItems(MergeItem(h, ar, key, h[br].val[key]), ar, br, i + 1)

\* dict_merge(a, b): the heap after the call and the value returned.
dict_merge(h, av, bv) ==
    IF ~IsDict(av) \/ ~IsDict(bv)
    THEN [h |-> h, v |-> bv]
    ELSE [h |-> MergeItems(h, av.r, bv.r, 1), v |-> av]

-----------------------------------------------------------------------------
(* Strings: a Python str is the sequence of its characters *)

Str(s) == [t |-> "str", s |-> s]
List(l) == [t |-> "list", l |-> l]
None == [t |-> "none"]

\* The whitespace str.strip() removes and the regular expressions' \s matches
\* (of the characters the inputs are made of).
IsSpace(ch) == ch \in {" ", "\t", "\n"}

RECURSIVE lstrip(_)
lstrip(s) == IF s # <<>> /\ IsSpace(Head(s)) THEN lstrip(Tail(s)) ELSE s

RECURSIVE rstrip(_)
rstrip(s) ==
    IF s # <<>> /\ IsSpace(s[Len(s)]) THEN rstrip(SubSeq(s, 1, Len(s) - 1)) ELSE s

\* s.strip()
strip(s) == rstrip(lstrip(s))

\* s.split('\n')
RECURSIVE split(_)
split(s) ==
    LET nl == {i \in 1 .. Len(s) : s[i] = "\n"}
    IN  IF nl = {} THEN <<s>>
        ELSE LET i == CHOOSE j \in nl : \A k \in nl : j <= k
             IN  <<SubSeq(s, 1, i - 1)>> \o split(SubSeq(s, i + 1, Len(s)))

\* s[i:] and s[i:j] with a negative j counted from the end
SliceFrom(s, i) == SubSeq(s, i + 1, Len(s))
Slice(s, i, j) == SubSeq(s, i + 1, IF j < 0 THEN Len(s) + j ELSE j)

\* the lines, each followed by '\n'
RECURSIVE JoinLines(_)
JoinLines(ls) ==
    IF ls = <<>> THEN <<>> ELSE Head(ls) \o <<"\n">> \o JoinLines(Tail(ls))

-----------------------------------------------------------------------------
(* parse_comments *)

FieldName == <<"n", "a", "m", "e">>
FieldDescription == <<"d", "e", "s", "c", "r", "i", "p", "t", "i", "o", "n">>
FieldNote == <<"n", "o", "t", "e">>
FieldNotes == <<"n", "o", "t", "e", "s">>

\* re.search(r'^\[.*\]$', line), for a line that holds no '\n'
IsFieldLine(line) ==
    Len(line) >= 2 /\ line[1] = "[" /\ line[Len(line)] = "]"

\* output[key] = val on parse_comments' own dictionary
Put(output, key, val) ==
    [k \in (DOMAIN output) \cup {key} |-> IF k = key THEN val ELSE output[k]]

\* An add_field that puts the value of a section in front of the earlier ones.
add_fieldPrepend(output, fld, val) ==
    IF val = None THEN [err |-> "AttributeError", output |-> output]
    ELSE LET v == strip(val.s)
         IN  IF fld = None THEN [err |-> "", output |-> output]
             ELSE IF fld.s \in {FieldName, FieldDescription}
             THEN IF fld.s \in DOMAIN output
                  THEN [err |-> "", output |-> output]
                  ELSE [err |-> "", output |-> Put(output, fld.s, Str(v))]
             ELSE LET f    == IF fld.s = FieldNote THEN FieldNotes ELSE fld.s
                      base == IF f \in DOMAIN output THEN output
                              ELSE Put(output, f, List(<<>>))
                  IN  [err |-> "",
                       output |-> Put(base, f, List(<<v>> \o base[f].l))]

\* add_field(output, field, value): the exception raised ("" for none) and
\* output after the call.  value.strip() comes first, so a value of None raises
\* AttributeError whatever the field is.
add_field(output, fld, val) ==
    IF val = None THEN [err |-> "AttributeError", output |-> output]
    ELSE LET v == strip(val.s)
         IN  IF fld = None THEN [err |-> "", output |-> output]
             ELSE IF fld.s \in {FieldName, FieldDescription}
             THEN IF fld.s \in DOMAIN output
                  THEN [err |-> "", output |-> output]
                  ELSE [err |-> "", output |-> Put(output, fld.s, Str(v))]
             ELSE LET f    == IF fld.s = FieldNote THEN FieldNotes ELSE fld.s
                      base == IF f \in DOMAIN output THEN output
                              ELSE Put(output, f, List(<<>>))
                  IN  [err |-> "",
                       output |-> Put(base, f, List(Append(base[f].l, v)))]

\* The else branch of the loop: a line of text is added to the value.
AddText(val, line) ==
    LET v0 == IF val = None THEN <<>> ELSE val.s
        l1 == IF Len(v0) > 0 /\ v0[Len(v0)] = "." THEN <<" ">> \o line ELSE line
    IN  Str(v0 \o <<" ">> \o l1)

\* One turn of the loop over comments.split('\n').
CommentLine(st, rawline) ==
    LET line == strip(rawline)
    IN  IF IsFieldLine(line)
        THEN LET r == add_field(st.output, st.field, st.value)
             IN  IF r.err # ""
                 THEN [st EXCEPT !.err = r.err]
                 ELSE [err |-> "", output |-> r.output,
                       field |-> Str(Slice(line, 1, -1)), value |-> None]
        ELSE [st EXCEPT !.value = AddText(st.value, line)]

\* The add_field after the loop.
CommentEnd(st) ==
    LET r == add_field(st.output, st.field, st.value)
    IN  [st EXCEPT !.err = r.err, !.output = r.output]

CommentStart == [err |-> "", output |-> <<>>, field |-> None, value |-> None]

RECURSIVE CommentLoop(_, _, _)
CommentLoop(st, lines, i) ==
    IF st.err # "" THEN st
    ELSE IF i > Len(lines) THEN CommentEnd(st)
    ELSE CommentLoop(CommentLine(st, lines[i]), lines, i + 1)

\* parse_comments(comments): the exception raised ("" for none) and the
\* dictionary returned.
parse_comments(s) ==
    LET st == CommentLoop(CommentStart, split(s), 1)
    IN  [err |-> st.err, output |-> st.output]

-----------------------------------------------------------------------------
(* Regular expressions and numbers of parse_mapfile *)

\* the literal lit stands in s at index i
HasAt(s, i, lit) ==
    /\ i >= 1
    /\ i + Len(lit) - 1 <= Len(s)
    /\ SubSeq(s, i, i + Len(lit) - 1) = lit

\* The length of the longest run of whitespace (sp) or of non-whitespace
\* (~sp) characters of s that starts at index i: what a greedy \s* or \S*
\* takes there.
RECURSIVE RunLen(_, _, _)
RunLen(s, i, sp) ==
    IF i >= 1 /\ i <= Len(s) /\ (IsSpace(s[i]) <=> sp)
    THEN 1 + RunLen(s, i + 1, sp)
    ELSE 0

\* the least element of a non-empty set of numbers
Least(P) == CHOOSE i \in P : \A j \in P : i <= j

\* 0x\S+ matched at index i, where the longest run of non-whitespace after
\* the 0x has length n: the index after the token (0 when it does not match).
\* In the patterns below the token is followed by \s+, which only matches
\* after the longest run.
HexEnd(s, i, n) == IF HasAt(s, i, <<"0", "x">>) /\ n >= 1 THEN i + 2 + n ELSE 0
HexTokenEnd(s, i) == HexEnd(s, i, RunLen(s, i + 2, FALSE))

\* \s+ matched at index i, where the longest run of whitespace has length m:
\* the index after the run (0 when there is none)
RunEnd(i, m) == IF i >= 1 /\ m >= 1 THEN i + m ELSE 0
SpacesEnd(s, i) == RunEnd(i, RunLen(s, i, TRUE))

\* (0x\S+)\s+(0x\S+) matched at index i: the tokens end before e1 and e2, the
\* second starts at j
TwoHexMatch(s, i, e1, j, e2) ==
    [ok |-> e2 # 0, g1 |-> SubSeq(s, i, e1 - 1), g2 |-> SubSeq(s, j, e2 - 1)]
TwoHexSecond(s, i, e1, j) == TwoHexMatch(s, i, e1, j, HexTokenEnd(s, j))
TwoHexSpaces(s, i, e1) == TwoHexSecond(s, i, e1, SpacesEnd(s, e1))
TwoHexAt(s, i) == TwoHexSpaces(s, i, HexTokenEnd(s, i))

\* re.search(r'(0x\S+)\s+(0x\S+)', s): None, or the two groups of the
\* leftmost match.  P holds the indices where the pattern matches.
TwoHexFirst(s, P) == IF P = {} THEN None ELSE TwoHexAt(s, Least(P))
SearchTwoHex(s) == TwoHexFirst(s, {i \in 1 .. Len(s) : TwoHexAt(s, i).ok})

\* 0x\S+\s+(\S+) matched at index i: the name starts at j and has length n
HexNameMatch(s, j, n) == [ok |-> j # 0 /\ n >= 1, g1 |-> SubSeq(s, j, j + n - 1)]
HexNameToken(s, j) == HexNameMatch(s, j, RunLen(s, j, FALSE))
HexNameAt(s, i) == HexNameToken(s, SpacesEnd(s, HexTokenEnd(s, i)))

\* re.search(r'0x\S+\s+(\S+)', s): None, or the group of the leftmost match
HexNameFirst(s, P) == IF P = {} THEN None ELSE HexNameAt(s, Least(P))
SearchHexName(s) == HexNameFirst(s, {i \in 1 .. Len(s) : HexNameAt(s, i).ok})

\* (0x\S+)\s+name\n matched at index i: the token ends before e1
HexBeforeMatch(s, name, i, e1, j) ==
    [ok |-> j # 0 /\ HasAt(s, j, name \o <<"\n">>), g1 |-> SubSeq(s, i, e1 - 1)]
HexBeforeSpaces(s, name, i, e1) == HexBeforeMatch(s, name, i, e1, SpacesEnd(s, e1))
HexBeforeAt(s, name, i) == HexBeforeSpaces(s, name, i, HexTokenEnd(s, i))

\* re.search(r'(0x\S+)\s+' + name + '\n', s): None, or the group of the
\* leftmost match
HexBeforeFirst(s, name, P) ==
    IF P = {} THEN None ELSE HexBeforeAt(s, name, Least(P))
SearchHexBefore(s, name) ==
    HexBeforeFirst(s, name, {i \in 1 .. Len(s) : HexBeforeAt(s, name, i).ok})

TextKbfun == <<".", "t", "e", "x", "t", ".", "k", "b", "f", "u", "n", "_">>
ProgmemData == <<".", "p", "r", "o", "g", "m", "e", "m", ".", "d", "a", "t", "a">>
LayoutWord == <<"l", "a", "y", "o", "u", "t">>

\* re.search(r'^\s*\.text\.kbfun_', line)
IsKbfunTrigger(line) == HasAt(line, RunLen(line, 1, TRUE) + 1, TextKbfun)

\* \.progmem\.data.*layout matched at index i: '.' matches no '\n'
ProgmemLayoutAt(line, i, e) ==
    /\ HasAt(line, i, ProgmemData)
    /\ \E q \in e .. Len(line) :
          /\ HasAt(line, q, LayoutWord)
          /\ \A k \in e .. (q - 1) : line[k] # "\n"

\* re.search(r'^\s*\.progmem\.data.*layout', line)
IsLayoutTrigger(line) ==
    ProgmemLayoutAt(line, RunLen(line, 1, TRUE) + 1,
                    RunLen(line, 1, TRUE) + 1 + Len(ProgmemData))

HexDigits ==
    <<"0", "1", "2", "3", "4", "5", "6", "7", "8", "9", "a", "b", "c", "d", "e", "f">>
HexUpper ==
    <<"0", "1", "2", "3", "4", "5", "6", "7", "8", "9", "A", "B", "C", "D", "E", "F">>

IsHexDigit(ch) == \E i \in 1 .. 16 : ch = HexDigits[i] \/ ch = HexUpper[i]
DigitVal(ch) == (CHOOSE i \in 1 .. 16 : ch = HexDigits[i] \/ ch = HexUpper[i]) - 1

\* the digits read in base 10
RECURSIVE DigitsValDecimal(_, _)
DigitsValDecimal(ds, acc) ==
    IF ds = <<>> THEN acc
    ELSE IF Head(ds) = "_" THEN DigitsValDecimal(Tail(ds), acc)
    ELSE DigitsValDecimal(Tail(ds), 10 * acc + DigitVal(Head(ds)))

\* the digits read in base 16, underscores skipped
RECURSIVE DigitsVal(_, _)
DigitsVal(ds, acc) ==
    IF ds = <<>> THEN acc
    ELSE IF Head(ds) = "_" THEN DigitsVal(Tail(ds), acc)
    ELSE DigitsVal(Tail(ds), 16 * acc + DigitVal(Head(ds)))

ValueError == -1

\* the digits after 0x are well formed: hexadecimal digits, which single
\* underscores may separate
IsHexLiteral(ds) ==
    /\ ds # <<>>
    /\ \A i \in 1 .. Len(ds) : IsHexDigit(ds[i]) \/ ds[i] = "_"
    /\ ds[Len(ds)] # "_"
    /\ \A i \in 1 .. (Len(ds) - 1) : ~(ds[i] = "_" /\ ds[i + 1] = "_")

\* int(tok, 16) for a token that starts with 0x: the number, or ValueError
Int16Digits(ds) == IF IsHexLiteral(ds) THEN DigitsVal(ds, 0) ELSE ValueError
Int16(tok) == Int16Digits(SubSeq(tok, 3, Len(tok)))

-----------------------------------------------------------------------------
(* parse_mapfile: its two nested functions *)

KbLayout == <<"_", "k", "b", "_", "l", "a", "y", "o", "u", "t">>
KbLayoutPress == <<"_", "k", "b", "_", "l", "a", "y", "o", "u", "t", "_", "p", "r", "e", "s", "s">>
KbLayoutRelease == <<"_", "k", "b", "_", "l", "a", "y", "o", "u", "t", "_", "r", "e", "l", "e", "a", "s", "e">>
NotAllFound == "Exception: parse_mapfile: not all layout matrices were found"

\* {key: value, ...} as a tree
Tree(m) == [t |-> "d", m |-> m]

\* position and length stored under each other's key
PosLenSwapped(position, length) ==
    Tree([position |-> Scalar(length), length |-> Scalar(position)])

\* {'position': position, 'length': length}
PosLen(position, length) ==
    Tree([position |-> Scalar(position), length |-> Scalar(length)])

Returned(tree, n) == [err |-> "", n |-> n, tree |-> tree]

\* An exception that is caught and turned into an empty result.
RaisedSwallowed(err, n) == Returned(Tree(<<>>), n)

\* A call that raised err after the file iterator had given n lines in all.
Raised(err, n) == [err |-> err, n |-> n, tree |-> None]

\* A return that leaves the second line read to the loop again.
KbfunReturnBack(n, position, length, search) ==
    IF search = None THEN Raised("AttributeError", n + 2)
    ELSE Returned(
            Tree("keyboard-functions" :> Tree(search.g1 :> PosLen(position, length))),
            n + 1)

\* parse_keyboard_function(f, line) of parse_mapfile, called when n lines of
\* the file (lines) have been read: the exception raised or the dictionary
\* returned, and the number of lines read after the call.  Each step below
\* takes what the lines before it computed.
KbfunReturn(n, position, length, search) ==          \* lines 109-118
    IF search = None THEN Raised("AttributeError", n + 2)
    ELSE Returned(
            Tree("keyboard-functions" :> Tree(search.g1 :> PosLen(position, length))),
            n + 2)

KbfunSecondLine(lines, n, position, length) ==       \* lines 105-108
    IF position = ValueError \/ length = ValueError
    THEN Raised("ValueError", n + 1)
    ELSE IF n + 2 > Len(lines) THEN Raised("StopIteration", n + 1)
    ELSE KbfunReturn(n, position, length, SearchHexName(lines[n + 2]))

KbfunFirstLine(lines, n, search) ==                  \* lines 104-106
    IF search = None THEN Raised("AttributeError", n + 1)
    ELSE KbfunSecondLine(lines, n, Int16(search.g1), Int16(search.g2))

mapfile_parse_keyboard_function(lines, n) ==
    IF n + 1 > Len(lines) THEN Raised("StopIteration", n)
    ELSE KbfunFirstLine(lines, n, SearchTwoHex(lines[n + 1]))

\* The test of lines 138-140: a position of 0 counts as not found.
AllFound(layout_position, layout_press_position, layout_release_position) ==
    /\ layout_position # 0
    /\ layout_press_position # 0
    /\ layout_release_position # 0

\* parse_layout_matrices(f, line), called when n lines have been read.
LayoutReturn(n, base_length, layout_position, layout_press_position, layout_release_position) ==
    IF ValueError \in {layout_position, layout_press_position,
                       layout_release_position}
    THEN Raised("ValueError", n + 3)
    ELSE IF ~AllFound(layout_position, layout_press_position,
                      layout_release_position)
    THEN Raised(NotAllFound, n + 3)
    ELSE Returned(
            Tree("layout-matrices" :>
                    Tree((KbLayout :> PosLen(layout_position, base_length))
                      @@ (KbLayoutPress :>
                            PosLen(layout_press_position, base_length * 2))
                      @@ (KbLayoutRelease :>
                            PosLen(layout_release_position, base_length * 2)))),
            n + 3)

LayoutPositions(n, base_length, s1, s2, s3) ==       \* lines 128-136
    IF s1 = None \/ s2 = None \/ s3 = None THEN Raised("AttributeError", n + 3)
    ELSE LayoutReturn(n, base_length, Int16(s1.g1), Int16(s2.g1), Int16(s3.g1))

LayoutNextLines(n, base_length, next_lines) ==       \* lines 128-133
    LayoutPositions(n, base_length,
                    SearchHexBefore(next_lines, KbLayout),
                    SearchHexBefore(next_lines, KbLayoutPress),
                    SearchHexBefore(next_lines, KbLayoutRelease))

LayoutBaseLength(lines, n, total) ==                 \* lines 125-127
    IF total = ValueError THEN Raised("ValueError", n)
    ELSE IF n + 3 > Len(lines) THEN Raised("StopIteration", Len(lines))
    ELSE LayoutNextLines(n, total \div 5,
                         lines[n + 1] \o lines[n + 2] \o lines[n + 3])

LayoutLength(lines, n, search) ==                    \* lines 123-125
    IF search = None THEN Raised("AttributeError", n)
    ELSE LayoutBaseLength(lines, n, Int16(search.g2))

parse_layout_matrices(lines, line, n) ==
    LayoutLength(lines, n, SearchTwoHex(line))

-----------------------------------------------------------------------------
(* The inputs of a merge: nested mappings over a few keys and scalars *)

MaxEdges == 2
MaxMerges == 2
Keys == {"x", "y"}
Scalars == {Scalar(1), Scalar(2)}

\* The trees with at most n key-value pairs in all, at any depth.
RECURSIVE TreesUpTo(_)
TreesUpTo(n) ==
    IF n = 0 THEN {EmptyTree}
    ELSE TreesUpTo(n - 1) \cup
         UNION { { [t |-> "d",
                    m |-> [k \in (DOMAIN d.m) \cup {key} |->
                             IF k = key THEN v ELSE d.m[k]]] :
                   d \in {dd \in TreesUpTo(n - 1 - j) : key \notin DOMAIN dd.m},
                   v \in Scalars \cup TreesUpTo(j) } :
                 j \in 0 .. (n - 1), key \in Keys }

Trees == TreesUpTo(MaxEdges)
Inputs == Trees \cup Scalars

\* No call of dict_merge is being observed.
MergeIdle ==
    /\ a = NoValue
    /\ b = NoValue
    /\ a0 = NoValue
    /\ b0 = NoValue
    /\ c = NoValue
    /\ res = <<>>

\* No call of parse_comments is being observed.
CommentsIdle ==
    /\ comments = <<>>
    /\ clines = <<>>
    /\ ci = 0
    /\ coutput = <<>>
    /\ cfield = NoValue
    /\ cvalue = NoValue
    /\ cstatus = "idle"

\* No call of parse_mapfile is being observed.
MapIdle ==
    /\ mlines = <<>>
    /\ mi = 0
    /\ mline = <<>>
    /\ moutput = NoValue
    /\ mstatus = "idle"

\* No call of parse_source_code is being observed.
SourceIdle ==
    /\ sfiles = <<>>
    /\ sf = 0
    /\ si = 0
    /\ scomments = <<>>
    /\ soutput = NoValue
    /\ sstatus = "idle"

\* main is not running.
MainIdle ==
    /\ args = NoValue
    /\ report = NoValue
    /\ parts = <<>>
    /\ pc = "idle"
    /\ printed = NoValue

-----------------------------------------------------------------------------
(* Calls of dict_merge on inputs built by the caller *)

InitMerge ==
    \E ta \in Inputs, tb \in Inputs :
        LET ma == Alloc(<<>>, ta)
            mb == Alloc(ma.h, tb)
        IN  /\ heap = mb.h
            /\ a = ma.v
            /\ b = mb.v
            /\ a0 = ta
            /\ b0 = tb
            /\ c = NoValue
            /\ res = <<>>
            /\ CommentsIdle
            /\ MapIdle
            /\ SourceIdle
            /\ MainIdle

\* a = dict_merge(a, b)
MergeB ==
    /\ Len(res) < MaxMerges
    /\ LET m == dict_merge(heap, a, b)
       IN  /\ heap' = m.h
           /\ a' = m.v
           /\ res' = Append(res, DeepVal(m.h, m.v))
    /\ UNCHANGED <<b, b0, a0, c>>
    /\ UNCHANGED <<commentVars, mapVars, sourceVars, mainVars>>

\* c = <a new tree>; a = dict_merge(a, c)
MergeC ==
    /\ c = NoValue
    /\ Len(res) < MaxMerges
    /\ \E tc \in Trees :
        LET mc == Alloc(heap, tc)
            m  == dict_merge(mc.h, a, mc.v)
        IN  /\ heap' = m.h
            /\ c' = mc.v
            /\ a' = m.v
            /\ res' = Append(res, DeepVal(m.h, m.v))
    /\ UNCHANGED <<b, b0, a0>>
    /\ UNCHANGED <<commentVars, mapVars, sourceVars, mainVars>>

NextMerge == MergeB
SpecMerge == InitMerge /\ [][NextMerge]_vars

NextAlias == MergeB \/ MergeC
SpecAlias == InitMerge /\ [][NextAlias]_vars

-----------------------------------------------------------------------------
(* Calls of parse_comments, one turn of its loop at a time *)

MaxCommentLines == 4

CommentLineSet ==
    { <<"[", "n", "a", "m", "e", "]">>,
      <<"[", "n", "o", "t", "e", "]">>,
      <<"[", "s", "e", "e", "]">>,
      <<" ", "F", "o", "o", " ">>,
      <<"B", "a", "r", ".">>,
      <<>> }

\* The comment of the documented example.
ExampleComment ==
    JoinLines(<< <<"[", "n", "a", "m", "e", "]">>,
                 <<"F", "o", "o">>,
                 <<"[", "d", "e", "s", "c", "r", "i", "p", "t", "i", "o", "n", "]">>,
                 <<"B", "a", "r", ".">>,
                 <<"B", "a", "z">>,
                 <<"[", "n", "o", "t", "e", "]">>,
                 <<"O", "n", "e">>,
                 <<"[", "n", "o", "t", "e", "]">>,
                 <<"T", "w", "o">> >>)

RECURSIVE SeqsUpTo(_, _)
SeqsUpTo(S, n) ==
    IF n = 0 THEN {<<>>}
    ELSE SeqsUpTo(S, n - 1) \cup
         {Append(q, x) : q \in {p \in SeqsUpTo(S, n - 1) : Len(p) = n - 1}, x \in S}

\* Texts of up to MaxCommentLines lines, with and without the final '\n'.
CommentInputs ==
    LET texts == {JoinLines(ls) : ls \in SeqsUpTo(CommentLineSet, MaxCommentLines)}
    IN  texts \cup {SubSeq(s, 1, Len(s) - 1) : s \in texts \ {<<>>}}
              \cup {ExampleComment}

CommentState ==
    [err |-> "", output |-> coutput, field |-> cfield, value |-> cvalue]

SetCommentState(st, finished) ==
    /\ coutput' = st.output
    /\ cfield' = st.field
    /\ cvalue' = st.value
    /\ cstatus' = IF st.err # "" THEN st.err
                  ELSE IF finished THEN "done" ELSE "scan"

\* the add_field of the loop or of the end is about to close a section
ClosingSection ==
    /\ cstatus = "scan"
    /\ ci > Len(clines) \/ IsFieldLine(strip(clines[ci]))

InitComments ==
    /\ comments \in CommentInputs
    /\ clines = split(comments)
    /\ ci = 1
    /\ coutput = CommentStart.output
    /\ cfield = CommentStart.field
    /\ cvalue = CommentStart.value
    /\ cstatus = "scan"
    /\ heap = <<>>
    /\ MergeIdle
    /\ MapIdle
    /\ SourceIdle
    /\ MainIdle

\* a turn of the loop on a '[field]' line
ParseFieldLine ==
    /\ cstatus = "scan"
    /\ ci <= Len(clines)
    /\ IsFieldLine(strip(clines[ci]))
    /\ SetCommentState(CommentLine(CommentState, clines[ci]), FALSE)
    /\ ci' = ci + 1
    /\ UNCHANGED <<comments, clines>>
    /\ UNCHANGED <<heap, mergeVars, mapVars, sourceVars, mainVars>>

\* a turn of the loop on any other line
ParseTextLine ==
    /\ cstatus = "scan"
    /\ ci <= Len(clines)
    /\ ~IsFieldLine(strip(clines[ci]))
    /\ SetCommentState(CommentLine(CommentState, clines[ci]), FALSE)
    /\ ci' = ci + 1
    /\ UNCHANGED <<comments, clines>>
    /\ UNCHANGED <<heap, mergeVars, mapVars, sourceVars, mainVars>>

\* the loop is over: the last section is closed and output returned
ParseEnd ==
    /\ cstatus = "scan"
    /\ ci > Len(clines)
    /\ SetCommentState(CommentEnd(CommentState), TRUE)
    /\ UNCHANGED <<comments, clines, ci>>
    /\ UNCHANGED <<heap, mergeVars, mapVars, sourceVars, mainVars>>

NextComments == ParseFieldLine \/ ParseTextLine \/ ParseEnd
SpecComments == InitComments /\ [][NextComments]_vars

-----------------------------------------------------------------------------
(* parse_mapfile: the loop over the lines of the file *)

RECURSIVE MapLoop(_, _, _, _)

\* dict_merge(output, <the dictionary returned>): the heap after it
MergeLiteral(out, lit) == dict_merge(lit.h, out, lit.v).h

\* the end of a turn of the loop, given what the nested function returned
MapMerge(h, out, r) ==
    IF r.err # "" THEN [err |-> r.err, h |-> h, n |-> r.n]
    ELSE IF r.tree = None THEN [err |-> "", h |-> h, n |-> r.n]
    ELSE [err |-> "", h |-> MergeLiteral(out, Alloc(h, r.tree)), n |-> r.n]

\* One turn of 'for line in f', entered when n lines have been read and at
\* least one is left: the exception raised ("" for none), the heap and the
\* number of lines read after the turn.
MapTurn(h, out, lines, n) ==
    MapMerge(h, out,
             IF IsKbfunTrigger(lines[n + 1])
             THEN mapfile_parse_keyboard_function(lines, n + 1)
             ELSE IF IsLayoutTrigger(lines[n + 1])
             THEN parse_layout_matrices(lines, lines[n + 1], n + 1)
             ELSE Returned(None, n + 1))

\* the loop goes on unless the turn raised
MapNext(r, out, lines) ==
    IF r.err # "" THEN [err |-> r.err, h |-> r.h]
    ELSE MapLoop(r.h, out, lines, r.n)

MapLoop(h, out, lines, n) ==
    IF n >= Len(lines) THEN [err |-> "", h |-> h]
    ELSE MapNext(MapTurn(h, out, lines, n), out, lines)

\* parse_mapfile(map_file_path) on a file with these lines: the exception
\* raised ("" for none), the heap after the call and the dictionary returned.
MapfileResult(r, out) == [err |-> r.err, h |-> r.h, v |-> out]
parse_mapfile(h, lines) ==
    MapfileResult(MapLoop(Append(h, EmptyDict), Ref(Len(h) + 1), lines, 0),
                  Ref(Len(h) + 1))

MaxMapLines == 4

LineKbfun == <<" ", ".", "t", "e", "x", "t", ".", "k", "b", "f", "u", "n", "_", "a", "\n">>
LineTwoHex == <<"0", "x", "1", "0", " ", "0", "x", "2", "0", "\n">>
LineHexName == <<"0", "x", "1", "0", " ", "k", "b", "f", "u", "n", "_", "a", "\n">>
LineLayout == <<" ", ".", "p", "r", "o", "g", "m", "e", "m", ".", "d", "a", "t", "a", ".", "l", "a", "y", "o", "u", "t", " ", "0", "x", "0", " ", "0", "x", "1", "a", "4", "\n">>
LineKbLayout == <<"0", "x", "3", "0", " ", "_", "k", "b", "_", "l", "a", "y", "o", "u", "t", "\n">>
LineKbLayoutPress == <<"0", "x", "4", "0", " ", "_", "k", "b", "_", "l", "a", "y", "o", "u", "t", "_", "p", "r", "e", "s", "s", "\n">>
LineKbLayoutRelease == <<"0", "x", "5", "0", " ", "_", "k", "b", "_", "l", "a", "y", "o", "u", "t", "_", "r", "e", "l", "e", "a", "s", "e", "\n">>
LineOther == <<"x", "\n">>

\* _kb_layout at position 0
LineKbLayoutZero == <<"0", "x", "0", " ", "_", "k", "b", "_", "l", "a", "y", "o", "u", "t", "\n">>

\* a '.text.kbfun_' line that also reads as a line of two hex tokens and as
\* the line of _kb_layout
LineKbfunHex == <<" ", ".", "t", "e", "x", "t", ".", "k", "b", "f", "u", "n", "_", "b", " ", "0", "x", "1", "0", " ", "0", "x", "2", "0", " ", "_", "k", "b", "_", "l", "a", "y", "o", "u", "t", "\n">>

MapLineSet ==
    {LineKbfun, LineTwoHex, LineHexName, LineLayout, LineKbLayout,
     LineKbLayoutPress, LineKbLayoutRelease, LineKbLayoutZero, LineKbfunHex,
     LineOther}

\* The map file of the documented example.
ExampleMap ==
    << <<".", "t", "e", "x", "t", ".", "k", "b", "f", "u", "n", "_", "f", "o", "o", "\n">>,
       <<"0", "x", "0", "0", "0", "0", "1", "0", "0", "0", " ", " ", " ", "0", "x", "0", "0", "0", "0", "0", "0", "2", "0", "\n">>,
       <<"0", "x", "0", "0", "0", "0", "1", "0", "0", "0", " ", " ", " ", "k", "b", "f", "u", "n", "_", "f", "o", "o", "\n">> >>

MapFiles == SeqsUpTo(MapLineSet, MaxMapLines) \cup {ExampleMap}

InitMap ==
    /\ mlines \in MapFiles
    /\ mi = 0
    /\ mline = <<>>
    /\ heap = <<EmptyDict>>
    /\ moutput = Ref(1)
    /\ mstatus = "scan"
    /\ MergeIdle
    /\ CommentsIdle
    /\ SourceIdle
    /\ MainIdle

\* the turn of the loop on the next line of the file
MapStep ==
    \E r \in {MapTurn(heap, moutput, mlines, mi)} :
        /\ mline' = mlines[mi + 1]
        /\ mi' = r.n
        /\ heap' = r.h
        /\ mstatus' = IF r.err # "" THEN r.err ELSE "scan"
        /\ UNCHANGED <<mlines, moutput>>
        /\ UNCHANGED <<mergeVars, commentVars, sourceVars, mainVars>>

\* a '.text.kbfun_' line
MapKeyboardFunction ==
    /\ mstatus = "scan"
    /\ mi < Len(mlines)
    /\ IsKbfunTrigger(mlines[mi + 1])
    /\ MapStep

\* a '.progmem.data ... layout' line
MapLayoutMatrices ==
    /\ mstatus = "scan"
    /\ mi < Len(mlines)
    /\ ~IsKbfunTrigger(mlines[mi + 1])
    /\ IsLayoutTrigger(mlines[mi + 1])
    /\ MapStep

\* any other line
MapSkipLine ==
    /\ mstatus = "scan"
    /\ mi < Len(mlines)
    /\ ~IsKbfunTrigger(mlines[mi + 1])
    /\ ~IsLayoutTrigger(mlines[mi + 1])
    /\ MapStep

\* the file is exhausted: return output
MapEnd ==
    /\ mstatus = "scan"
    /\ mi >= Len(mlines)
    /\ mstatus' = "done"
    /\ UNCHANGED <<heap, mlines, mi, mline, moutput>>
    /\ UNCHANGED <<mergeVars, commentVars, sourceVars, mainVars>>

NextMap == MapKeyboardFunction \/ MapLayoutMatrices \/ MapSkipLine \/ MapEnd
SpecMap == InitMap /\ [][NextMap]_vars

-----------------------------------------------------------------------------
(* parse_source_code *)

Void == <<"v", "o", "i", "d">>
KbfunPrefix == <<"k", "b", "f", "u", "n", "_">>
ParenVoid == <<"(", "v", "o", "i", "d", ")">>
CommentOpen == <<"/", "*">>
CommentClose == <<"*", "/">>

\* the greatest element of a non-empty set of numbers
Greatest(P) == CHOOSE i \in P : \A j \in P : j <= i

\* \s*\(void\) matched at index e
DeclTail(s, e) == HasAt(s, e + RunLen(s, e, TRUE), ParenVoid)

\* The lengths that \S+ can have after the kbfun_ that ends before index j
\* for the rest of the pattern to match: \S+ takes the longest, and gives
\* characters back until \s*\(void\) matches.
DeclNameLens(s, j) == {k \in 1 .. RunLen(s, j, FALSE) : DeclTail(s, j + k)}

\* void\s+kbfun_ matched at index i, where the longest run of whitespace after
\* void has length ws: the index of kbfun_ (0 when it does not match)
DeclPrefixAt(s, i, ws) ==
    IF HasAt(s, i, Void) /\ ws >= 1 /\ HasAt(s, i + 4 + ws, KbfunPrefix)
    THEN i + 4 + ws
    ELSE 0
DeclNameStart(s, i) == DeclPrefixAt(s, i, RunLen(s, i + 4, TRUE))
DeclMatchesAt(s, j) == j # 0 /\ DeclNameLens(s, j + 6) # {}
DeclStarts(s) == {i \in 1 .. Len(s) : DeclMatchesAt(s, DeclNameStart(s, i))}

\* re.search(r'void\s+kbfun_\S+\s*\(void\)', line)
IsKbfunDecl(s) == DeclStarts(s) # {}

\* re.search(r'void\s+(kbfun_\S+)\s*\(void\)', line): the leftmost match, and
\* in it the longest name
DeclName(s, j) == SubSeq(s, j, j + 5 + Greatest(DeclNameLens(s, j + 6)))
DeclFirst(s, P) ==
    IF P = {} THEN None
    ELSE [ok |-> TRUE, g1 |-> DeclName(s, DeclNameStart(s, Least(P)))]
SearchKbfunDecl(s) == DeclFirst(s, DeclStarts(s))

\* A read_comments that takes the end of the file for the end of the comment.
RECURSIVE read_commentsToEnd(_, _, _)
read_commentsToEnd(lines, n, acc) ==
    IF strip(lines[n]) = CommentClose THEN [err |-> "", n |-> n, s |-> acc]
    ELSE IF n + 1 > Len(lines)
    THEN [err |-> "", n |-> n,
          s |-> acc \o strip(SliceFrom(lines[n], 2)) \o <<"\n">>]
    ELSE read_commentsToEnd(lines, n + 1,
                            acc \o strip(SliceFrom(lines[n], 2)) \o <<"\n">>)

\* read_comments(f, line), where line is the n-th line of the file and acc is
\* comments so far: the exception raised ("" for none), the number of lines
\* read after the call and the string returned.
RECURSIVE read_comments(_, _, _)
read_comments(lines, n, acc) ==
    IF strip(lines[n]) = CommentClose THEN [err |-> "", n |-> n, s |-> acc]
    ELSE IF n + 1 > Len(lines) THEN [err |-> "StopIteration", n |-> n, s |-> acc]
    ELSE read_comments(lines, n + 1,
                       acc \o strip(SliceFrom(lines[n], 2)) \o <<"\n">>)

\* the dictionary parse_comments returns, as a tree
CommentsTree(output) == Tree([k \in DOMAIN output |-> Scalar(output[k])])

\* A parse_keyboard_function that also gives the function a position of 0.
SourceKbfunReturnPlaced(search, parsed, n) ==
    IF search = None THEN Raised("AttributeError", n)
    ELSE IF parsed.err # "" THEN Raised(parsed.err, n)
    ELSE Returned(
            Tree("keyboard-functions" :>
                    Tree(search.g1 :>
                            Tree(("comments" :> CommentsTree(parsed.output))
                              @@ ("position" :> Scalar(0))))),
            n)

\* parse_keyboard_function(f, line, comments) of parse_source_code
SourceKbfunReturn(search, parsed, n) ==
    IF search = None THEN Raised("AttributeError", n)
    ELSE IF parsed.err # "" THEN Raised(parsed.err, n)
    ELSE Returned(
            Tree("keyboard-functions" :>
                    Tree(search.g1 :>
                            Tree("comments" :> CommentsTree(parsed.output)))),
            n)
source_parse_keyboard_function(line, cm, n) ==
    SourceKbfunReturn(SearchKbfunDecl(line), parse_comments(cm), n)

\* the end of a turn of the loop that called read_comments
SourceComments(h, cm, r) ==
    [err |-> r.err, h |-> h, n |-> r.n, cm |-> IF r.err = "" THEN r.s ELSE cm]

\* the end of a turn of the loop that did not call read_comments
SourceKeep(r, cm) == [err |-> r.err, h |-> r.h, n |-> r.n, cm |-> cm]

\* One turn of 'for line in f', entered when n lines of the file have been
\* read and comments is cm: the exception raised ("" for none), the heap, the
\* number of lines read and comments after the turn.
SourceTurn(h, out, lines, n, cm) ==
    IF strip(lines[n + 1]) = CommentOpen
    THEN SourceComments(h, cm, read_comments(lines, n + 1, <<>>))
    ELSE IF IsKbfunDecl(lines[n + 1])
    THEN SourceKeep(MapMerge(h, out,
                             source_parse_keyboard_function(lines[n + 1], cm, n + 1)),
                    cm)
    ELSE [err |-> "", h |-> h, n |-> n + 1, cm |-> cm]

RECURSIVE SourceLoop(_, _, _, _, _)
SourceNext(r, out, lines) ==
    IF r.err # "" THEN [err |-> r.err, h |-> r.h]
    ELSE SourceLoop(r.h, out, lines, r.n, r.cm)

\* 'for line in f' on one file
SourceLoop(h, out, lines, n, cm) ==
    IF n >= Len(lines) THEN [err |-> "", h |-> h]
    ELSE SourceNext(SourceTurn(h, out, lines, n, cm), out, lines)

RECURSIVE SourceWalk(_, _, _, _)
SourceWalkNext(r, out, files, k) ==
    IF r.err # "" THEN r ELSE SourceWalk(r.h, out, files, k + 1)

\* the loops over the files of the walk, from the k-th on: comments = '' for
\* each file
SourceWalk(h, out, files, k) ==
    IF k > Len(files) THEN [err |-> "", h |-> h]
    ELSE SourceWalkNext(SourceLoop(h, out, files[k], 0, <<>>), out, files, k)

\* parse_source_code(source_code_path) on a directory with these '.c' files:
\* the exception raised ("" for none), the heap after the call and the
\* dictionary returned.
parse_source_code(h, files) ==
    MapfileResult(SourceWalk(Append(h, EmptyDict), Ref(Len(h) + 1), files, 1),
                  Ref(Len(h) + 1))

MaxSourceLines == 5

LineOpen == <<"/", "*", "\n">>
LineName == <<" ", "*", " ", "[", "n", "a", "m", "e", "]", "\n">>
LineClose == <<" ", "*", "/", "\n">>
LineDeclA == <<"v", "o", "i", "d", " ", "k", "b", "f", "u", "n", "_", "a", "(", "v", "o", "i", "d", ")", " ", "{", "\n">>
LineDeclB == <<"v", "o", "i", "d", " ", "k", "b", "f", "u", "n", "_", "b", " ", "(", "v", "o", "i", "d", ")", "\n">>
\* the end of a file, in a sequence that holds the lines of several files
EndOfFile == <<>>

SourceLineSet == {LineOpen, LineName, LineClose, LineDeclA, LineDeclB}

\* the files whose lines, each file ended by EndOfFile but the last, are q
RECURSIVE SplitFiles(_)
SplitFiles(q) ==
    LET ends == {i \in 1 .. Len(q) : q[i] = EndOfFile}
    IN  IF ends = {} THEN <<q>>
        ELSE <<SubSeq(q, 1, Least(ends) - 1)>>
             \o SplitFiles(SubSeq(q, Least(ends) + 1, Len(q)))

\* Directories of '.c' files with up to MaxSourceLines lines and ends of
\* files in all.
SourceDirs ==
    {SplitFiles(q) : q \in SeqsUpTo(SourceLineSet \cup {EndOfFile}, MaxSourceLines)}

InitSource ==
    /\ sfiles \in SourceDirs
    /\ sf = 0
    /\ si = 0
    /\ scomments = <<>>
    /\ heap = <<EmptyDict>>
    /\ soutput = Ref(1)
    /\ sstatus = "walk"
    /\ MergeIdle
    /\ CommentsIdle
    /\ MapIdle
    /\ MainIdle

\* the next '.c' file of the walk is opened: comments = ''
SourceOpenFile ==
    /\ sstatus = "walk"
    /\ sf < Len(sfiles)
    /\ sf' = sf + 1
    /\ si' = 0
    /\ scomments' = <<>>
    /\ sstatus' = "scan"
    /\ UNCHANGED <<heap, sfiles, soutput>>
    /\ UNCHANGED <<mergeVars, commentVars, mapVars, mainVars>>

\* the turn of the loop on the next line of the open file
SourceStep ==
    \E r \in {SourceTurn(heap, soutput, sfiles[sf], si, scomments)} :
        /\ si' = r.n
        /\ heap' = r.h
        /\ scomments' = r.cm
        /\ sstatus' = IF r.err # "" THEN r.err ELSE "scan"
        /\ UNCHANGED <<sfiles, sf, soutput>>
        /\ UNCHANGED <<mergeVars, commentVars, mapVars, mainVars>>

\* a '/*' line
SourceReadComments ==
    /\ sstatus = "scan"
    /\ si < Len(sfiles[sf])
    /\ strip(sfiles[sf][si + 1]) = CommentOpen
    /\ SourceStep

\* a line that declares a kbfun_ function
SourceKeyboardFunction ==
    /\ sstatus = "scan"
    /\ si < Len(sfiles[sf])
    /\ strip(sfiles[sf][si + 1]) # CommentOpen
    /\ IsKbfunDecl(sfiles[sf][si + 1])
    /\ SourceStep

\* any other line
SourceSkipLine ==
    /\ sstatus = "scan"
    /\ si < Len(sfiles[sf])
    /\ strip(sfiles[sf][si + 1]) # CommentOpen
    /\ ~IsKbfunDecl(sfiles[sf][si + 1])
    /\ SourceStep

\* the open file is exhausted
SourceCloseFile ==
    /\ sstatus = "scan"
    /\ si >= Len(sfiles[sf])
    /\ sstatus' = "walk"
    /\ UNCHANGED <<heap, sfiles, sf, si, scomments, soutput>>
    /\ UNCHANGED <<mergeVars, commentVars, mapVars, mainVars>>

\* the walk is over: return output
SourceEnd ==
    /\ sstatus = "walk"
    /\ sf >= Len(sfiles)
    /\ sstatus' = "done"
    /\ UNCHANGED <<heap, sfiles, sf, si, scomments, soutput>>
    /\ UNCHANGED <<mergeVars, commentVars, mapVars, mainVars>>

NextSource ==
    \/ SourceOpenFile
    \/ SourceReadComments
    \/ SourceKeyboardFunction
    \/ SourceSkipLine
    \/ SourceCloseFile
    \/ SourceEnd
SpecSource == InitSource /\ [][NextSource]_vars

\* Either of the two scans is run: parse_mapfile on a map file or
\* parse_source_code on a directory.
InitScans == InitMap \/ InitSource
NextScans == NextMap \/ NextSource
SpecScans == InitScans /\ [][NextScans]_vars

-----------------------------------------------------------------------------
(* gen_static, gen_derived and main *)

\* gen_static(git_commit_date, git_commit_id), where date is what the date
\* command printed (None when os.name is not 'posix')
gen_static(date, git_commit_date, git_commit_id) ==
    Tree((".meta-data" :>
            Tree(("version" :> Scalar(0)) @@ ("date-generated" :> Scalar(date))))
      @@ ("miscellaneous" :>
            Tree(("git-commit-date" :> Scalar(git_commit_date))
              @@ ("git-commit-id" :> Scalar(git_commit_id)))))

\* 6 and 14 added, not multiplied
BytesPerLayerSum == 6 + 14

\* 6*14, the number of bytes of a layer of _kb_layout
BytesPerLayer == 6 * 14

\* data['layout-matrices']['_kb_layout']['length'] can be read
HasLayoutLength(data) ==
    /\ "layout-matrices" \in DOMAIN data.m
    /\ KbLayout \in DOMAIN data.m["layout-matrices"].m
    /\ "length" \in DOMAIN data.m["layout-matrices"].m[KbLayout].m

LayoutLengthOf(data) == data.m["layout-matrices"].m[KbLayout].m["length"].v

\* A gen_derived that falls back on a length of 0 when there is no _kb_layout.
gen_derivedDefault(data) ==
    [err |-> "",
     tree |-> Tree("miscellaneous" :>
                     Tree("number-of-layers" :>
                            Scalar(IF HasLayoutLength(data)
                                   THEN LayoutLengthOf(data) \div BytesPerLayer
                                   ELSE 0)))]

\* gen_derived(data), data given by its contents: the exception raised ("" for
\* none) and the dictionary returned.  int(length/(6*14)) divides as floating
\* point numbers and truncates, which is the integer quotient for the lengths
\* below 2^53 that these integers can hold.
gen_derived(data) ==
    IF ~HasLayoutLength(data) THEN [err |-> "KeyError", tree |-> None]
    ELSE [err |-> "",
          tree |-> Tree("miscellaneous" :>
                          Tree("number-of-layers" :>
                                 Scalar(LayoutLengthOf(data) \div BytesPerLayer)))]

MaxBlocks == 2

\* The map files main is run on: up to MaxBlocks blocks, each a
\* keyboard-function block, a block of layout matrices, a keyboard-function
\* block that lacks its line of hex tokens, or another line.
MapBlocks ==
    { <<LineKbfun, LineTwoHex, LineHexName>>,
      <<LineLayout, LineKbLayout, LineKbLayoutPress, LineKbLayoutRelease>>,
      <<LineKbfun, LineOther>>,
      <<LineOther>> }

\* The source files main is run on: up to MaxBlocks blocks, each a comment
\* block, the opening of a comment block or a declaration.
SourceBlocks ==
    { <<LineOpen, LineName, LineClose>>, <<LineOpen>>, <<LineDeclA>>, <<LineDeclB>> }

RECURSIVE Flatten(_)
Flatten(bs) == IF bs = <<>> THEN <<>> ELSE Head(bs) \o Flatten(Tail(bs))

\* what subprocess.getoutput gave, or None
Dates == {None, Str(<<"2", "0", "1", "2", "-", "0", "6", "-", "1", "5">>)}

MainArgs ==
    [ date : Dates,
      git_commit_date : {"2012-06-14 10:00:00-07:00"},
      git_commit_id : {"0123abc"},
      map : {Flatten(bs) : bs \in SeqsUpTo(MapBlocks, MaxBlocks)},
      source : {<<Flatten(bs)>> : bs \in SeqsUpTo(SourceBlocks, MaxBlocks)} ]

\* output = {}
InitMain ==
    /\ args \in MainArgs
    /\ heap = <<EmptyDict>>
    /\ report = Ref(1)
    /\ parts = <<>>
    /\ pc = "static"
    /\ printed = NoValue
    /\ MergeIdle
    /\ CommentsIdle
    /\ MapIdle
    /\ SourceIdle

\* dict_merge(output, part), where part was built on the heap h: the heap
\* after the merge
MainMerge(h, part) == dict_merge(h, report, part).h

\* dict_merge(output, gen_static(args.git_commit_date, args.git_commit_id))
MainStatic ==
    /\ pc = "static"
    /\ \E r \in {Alloc(heap, gen_static(args.date, args.git_commit_date,
                                        args.git_commit_id))} :
          /\ heap' = MainMerge(r.h, r.v)
          /\ parts' = Append(parts, DeepVal(r.h, r.v))
    /\ pc' = "mapfile"
    /\ UNCHANGED <<args, report, printed>>
    /\ UNCHANGED <<mergeVars, commentVars, mapVars, sourceVars>>

\* A main that catches the exception of a step and goes on to the next one.
MainParsedIgnore(r, next) ==
    /\ heap' = IF r.err # "" THEN heap ELSE MainMerge(r.h, r.v)
    /\ parts' = IF r.err # "" THEN parts ELSE Append(parts, DeepVal(r.h, r.v))
    /\ pc' = next
    /\ UNCHANGED <<args, report, printed>>
    /\ UNCHANGED <<mergeVars, commentVars, mapVars, sourceVars>>

\* the merge of what a parser returned, or its exception
MainParsed(r, next) ==
    /\ heap' = IF r.err # "" THEN heap ELSE MainMerge(r.h, r.v)
    /\ parts' = IF r.err # "" THEN parts ELSE Append(parts, DeepVal(r.h, r.v))
    /\ pc' = IF r.err # "" THEN r.err ELSE next
    /\ UNCHANGED <<args, report, printed>>
    /\ UNCHANGED <<mergeVars, commentVars, mapVars, sourceVars>>

\* dict_merge(output, parse_mapfile(args.map_file_path))
MainMapfile ==
    /\ pc = "mapfile"
    /\ \E r \in {parse_mapfile(heap, args.map)} : MainParsed(r, "source")

\* dict_merge(output, parse_source_code(args.source_code_path))
MainSource ==
    /\ pc = "source"
    /\ \E r \in {parse_source_code(heap, args.source)} : MainParsed(r, "derived")

\* the dictionary gen_derived returned, built on the heap
DerivedResult(d) ==
    IF d.err # "" THEN [err |-> d.err, h |-> heap, v |-> None]
    ELSE [err |-> "", h |-> Alloc(heap, d.tree).h, v |-> Alloc(heap, d.tree).v]

\* dict_merge(output, gen_derived(output))
MainDerived ==
    /\ pc = "derived"
    /\ \E d \in {gen_derived(DeepVal(heap, report))} :
          MainParsed(DerivedResult(d), "print")

\* print(json.dumps(output, sort_keys=True, indent=4))
MainPrint ==
    /\ pc = "print"
    /\ printed' = DeepVal(heap, report)
    /\ pc' = "done"
    /\ UNCHANGED <<heap, args, report, parts>>
    /\ UNCHANGED <<mergeVars, commentVars, mapVars, sourceVars>>

NextMain == MainStatic \/ MainMapfile \/ MainSource \/ MainDerived \/ MainPrint
SpecMain == InitMain /\ [][NextMain]_vars

MaxLength == 1300

\* n in hexadecimal, as a linker writes it after 0x
RECURSIVE HexOf(_)
HexOf(n) ==
    IF n < 16 THEN <<HexDigits[n + 1]>>
    ELSE Append(HexOf(n \div 16), HexDigits[(n % 16) + 1])

\* a '.progmem.data ... layout' line that gives a section of n bytes
LayoutLineOf(n) == <<" ", ".", "p", "r", "o", "g", "m", "e", "m", ".", "d", "a", "t", "a", ".", "l", "a", "y", "o", "u", "t", " ", "0", "x", "8", "0", "0", "1", "0", "0", " ", "0", "x">> \o HexOf(n) \o <<"\n">>

\* main on a map file that holds one block of layout matrices, for a section
\* of up to MaxLength bytes, and on a source directory with one empty file
InitLayers ==
    /\ args \in [ date : {None},
                  git_commit_date : {"2012-06-14 10:00:00-07:00"},
                  git_commit_id : {"0123abc"},
                  map : {<<LayoutLineOf(n), LineKbLayout, LineKbLayoutPress,
                           LineKbLayoutRelease>> : n \in 0 .. MaxLength},
                  source : {<< <<>> >>} ]
    /\ heap = <<EmptyDict>>
    /\ report = Ref(1)
    /\ parts = <<>>
    /\ pc = "static"
    /\ printed = NoValue
    /\ MergeIdle
    /\ CommentsIdle
    /\ MapIdle
    /\ SourceIdle

SpecLayers == InitLayers /\ [][NextMain]_vars

-----------------------------------------------------------------------------
(* Properties of parse_comments *)

ExampleOutput ==
    (FieldName :> Str(<<"F", "o", "o">>))
    @@ (FieldDescription :> Str(<<"B", "a", "r", ".", " ", " ", "B", "a", "z">>))
    @@ (FieldNotes :> List(<< <<"O", "n", "e">>, <<"T", "w", "o">> >>))

\* C5: parse_comments on the example text, whose first line is a '[field]'
\* line, returns name "Foo", description "Bar.  Baz" (two spaces after the
\* period) and notes ["One", "Two"].
C5_ExampleParsed ==
    (comments = ExampleComment /\ cstatus # "scan")
        => (cstatus = "done" /\ coutput = ExampleOutput)

\* C6: once a '[name]' or '[description]' section is stored its value never
\* changes, and closing a later section of the same name raises no error and
\* leaves the output as it is, whatever the section holds.
C6_LaterSectionIgnored ==
    [][ /\ \A f \in {FieldName, FieldDescription} :
             f \in DOMAIN coutput =>
                (f \in DOMAIN coutput' /\ coutput'[f] = coutput[f])
        /\ (/\ ClosingSection
            /\ cfield # None
            /\ cfield.s \in {FieldName, FieldDescription}
            /\ cfield.s \in DOMAIN coutput)
           => (cstatus' \in {"scan", "done"} /\ coutput' = coutput) ]_vars

\* the key under which the sections of field f are listed
ListKey(f) == IF f = FieldNote THEN FieldNotes ELSE f

\* the keys of output that hold a list
ListKeys(output) == (DOMAIN output) \ {FieldName, FieldDescription}

\* p is the beginning of q
IsPrefix(p, q) == Len(p) <= Len(q) /\ SubSeq(q, 1, Len(p)) = p

\* the list under key k of output, empty when there is none yet
ListUnder(output, k) == IF k \in DOMAIN output THEN output[k].l ELSE <<>>

\* the '[field]' lines of the comment whose sections are listed under k
SectionLines(k) ==
    {i \in 1 .. Len(clines) :
        /\ IsFieldLine(strip(clines[i]))
        /\ ListKey(Slice(strip(clines[i]), 1, -1)) = k}

-----------------------------------------------------------------------------
(* Properties of parse_source_code *)

\* The text of the comment block that stands before line n + 1 of a file with
\* no matched declaration in between, '' when there is none; i is the line
\* looked at and acc the text so far.
RECURSIVE PrecedingBlock(_, _, _, _)
PrecedingBlock(lines, i, n, acc) ==
    IF i > n THEN acc
    ELSE IF strip(lines[i]) = CommentOpen
    THEN LET r == read_comments(lines, i, <<>>)
         IN  PrecedingBlock(lines, r.n + 1, n, r.s)
    ELSE IF IsKbfunDecl(lines[i]) THEN PrecedingBlock(lines, i + 1, n, <<>>)
    ELSE PrecedingBlock(lines, i + 1, n, acc)

\* the names recorded in output so far
RecordedNames ==
    IF "keyboard-functions" \in DOMAIN heap[soutput.r].val
    THEN DOMAIN DeepVal(heap, soutput).m["keyboard-functions"].m
    ELSE {}

\* The next line of the open file declares a kbfun_ function that output does
\* not hold yet.
AtNewDeclaration ==
    /\ sstatus = "scan"
    /\ si < Len(sfiles[sf])
    /\ strip(sfiles[sf][si + 1]) # CommentOpen
    /\ IsKbfunDecl(sfiles[sf][si + 1])
    /\ SearchKbfunDecl(sfiles[sf][si + 1]).g1 \notin RecordedNames

\* C7: the comments recorded for a matched function are parsed from the
\* comment block that stands between the previous matched function (or the
\* start of the file) and its declaration, and from the empty string when
\* there is no such block: no block is given to two functions, and none is
\* carried over from another file.
C7_CommentsFromPrecedingBlock ==
    [][ AtNewDeclaration =>
          LET parsed == parse_comments(PrecedingBlock(sfiles[sf], 1, si, <<>>))
              name   == SearchKbfunDecl(sfiles[sf][si + 1]).g1
          IN  IF parsed.err # "" THEN sstatus' = parsed.err
              ELSE /\ sstatus' = "scan"
                   /\ DeepVal(heap', soutput).m["keyboard-functions"].m[name]
                        = Tree("comments" :> CommentsTree(parsed.output))
      ]_vars

-----------------------------------------------------------------------------
(* Properties of parse_mapfile *)

\* The whitespace-separated words of a line.
RECURSIVE Words(_)
Words(s) ==
    LET t == lstrip(s)
        n == RunLen(t, 1, FALSE)
    IN  IF t = <<>> THEN <<>>
        ELSE <<SubSeq(t, 1, n)>> \o Words(SubSeq(t, n + 1, Len(t)))

\* 0x followed by hexadecimal digits
IsHexWord(w) ==
    /\ Len(w) >= 3
    /\ SubSeq(w, 1, 2) = <<"0", "x">>
    /\ \A i \in 3 .. Len(w) : IsHexDigit(w[i])

HexWordValue(w) == DigitsVal(SubSeq(w, 3, Len(w)), 0)

\* The next line of the loop is a layout trigger line that holds its two hex
\* tokens, and the three lines after it are there.
AtLayoutBlock ==
    /\ mstatus = "scan"
    /\ mi + 4 <= Len(mlines)
    /\ ~IsKbfunTrigger(mlines[mi + 1])
    /\ IsLayoutTrigger(mlines[mi + 1])
    /\ SearchTwoHex(mlines[mi + 1]) # None

LayoutBlock == mlines[mi + 2] \o mlines[mi + 3] \o mlines[mi + 4]

\* C8: a layout trigger line whose three-line block lacks one of the three
\* matrix names makes parse_mapfile fail with the explicit error "not all
\* layout matrices were found", and adds nothing to the output.
C8_MissingMatrixExplicitError ==
    [][ (/\ AtLayoutBlock
         /\ \E name \in {KbLayout, KbLayoutPress, KbLayoutRelease} :
               SearchHexBefore(LayoutBlock, name) = None)
        => (mstatus' = NotAllFound /\ heap' = heap) ]_vars

\* The next three lines are a '.text.kbfun_' line, a line of two hex words and
\* a line of a hex word and a name.
AtKbfunBlock ==
    /\ mstatus = "scan"
    /\ mi + 3 <= Len(mlines)
    /\ HasAt(lstrip(mlines[mi + 1]), 1, TextKbfun)
    /\ Len(Words(mlines[mi + 2])) = 2
    /\ \A i \in 1 .. 2 : IsHexWord(Words(mlines[mi + 2])[i])
    /\ Len(Words(mlines[mi + 3])) = 2
    /\ IsHexWord(Words(mlines[mi + 3])[1])

\* The contents of output with one keyboard-functions record put in: the other
\* records and sections stay, the record of that name is replaced.
WithKbfunRecord(old, name, position, length) ==
    LET kf == IF "keyboard-functions" \in DOMAIN old.m
              THEN old.m["keyboard-functions"].m ELSE <<>>
    IN  Tree([k \in (DOMAIN old.m) \cup {"keyboard-functions"} |->
                IF k = "keyboard-functions"
                THEN Tree([nm \in (DOMAIN kf) \cup {name} |->
                             IF nm = name
                             THEN Tree([position |-> Scalar(position),
                                        length |-> Scalar(length)])
                             ELSE kf[nm]])
                ELSE old.m[k]])

ExampleMapOutput ==
    Tree("keyboard-functions" :>
            Tree(<<"k", "b", "f", "u", "n", "_", "f", "o", "o">> :>
                    Tree([position |-> Scalar(4096), length |-> Scalar(32)])))

\* C9: a '.text.kbfun_' line followed by a line of two hex words and a line
\* of a hex word and a name records one keyboard-functions entry under that
\* name, with the two numbers as position and length, and the scan goes on
\* after the third line; the example file yields kbfun_foo at position 4096
\* with length 32 and nothing else.
C9_KbfunBlockRecorded ==
    [][ /\ AtKbfunBlock =>
             /\ mstatus' = "scan"
             /\ mi' = mi + 3
             /\ DeepVal(heap', moutput') =
                   WithKbfunRecord(DeepVal(heap, moutput),
                                   Words(mlines[mi + 3])[2],
                                   HexWordValue(Words(mlines[mi + 2])[1]),
                                   HexWordValue(Words(mlines[mi + 2])[2]))
        /\ (mlines = ExampleMap /\ mstatus' = "done")
             => DeepVal(heap', moutput') = ExampleMapOutput ]_vars

\* The example file has been parsed to its end and its entry is in the output.
C9_Witness ==
    /\ mlines = ExampleMap
    /\ mstatus = "done"
    /\ "keyboard-functions" \in DOMAIN heap[moutput.r].val

\* The next line is a '.text.kbfun_' line and one of the two lines after it
\* does not match its pattern.
AtMalformedKbfunBlock ==
    /\ mstatus = "scan"
    /\ mi + 2 <= Len(mlines)
    /\ IsKbfunTrigger(mlines[mi + 1])
    /\ \/ SearchTwoHex(mlines[mi + 2]) = None
       \/ /\ mi + 3 <= Len(mlines)
          /\ SearchHexName(mlines[mi + 3]) = None

\* C10: when one of the two lines after a '.text.kbfun_' line does not match
\* its pattern, parse_mapfile fails there: the turn ends in an exception,
\* nothing is added to the output, and no turn of the loop follows a failure.
C10_MalformedEntryFails ==
    [][ /\ mstatus = "scan"
        /\ AtMalformedKbfunBlock => (mstatus' \notin {"scan", "done"} /\ heap' = heap)
      ]_vars

\* The scan failed on the second line after a trigger, the first having
\* matched.
C10_Witness ==
    /\ mstatus = "AttributeError"
    /\ mi >= 3
    /\ mline = mlines[mi - 2]
    /\ IsKbfunTrigger(mline)
    /\ SearchTwoHex(mlines[mi - 1]) # None
    /\ SearchHexName(mlines[mi]) = None

\* The next line is a layout trigger line and the three lines after it hold
\* the three names, each after a hex position that int() reads.
AtFullLayoutBlock ==
    /\ AtLayoutBlock
    /\ Int16(SearchTwoHex(mlines[mi + 1]).g2) # ValueError
    /\ \A name \in {KbLayout, KbLayoutPress, KbLayoutRelease} :
          /\ SearchHexBefore(LayoutBlock, name) # None
          /\ Int16(SearchHexBefore(LayoutBlock, name).g1) # ValueError

\* the record of a layout matrix: the position found before its name, and
\* the base length times factor
MatrixRecord(name, factor) ==
    Tree(("position" :> Scalar(Int16(SearchHexBefore(LayoutBlock, name).g1)))
      @@ ("length" :>
            Scalar((Int16(SearchTwoHex(mlines[mi + 1]).g2) \div 5) * factor)))

\* C15: when the three lines after a layout trigger line hold the three names
\* _kb_layout, _kb_layout_press and _kb_layout_release, in any order and each
\* after any hex position, position 0x0 included, the turn records the three
\* layout-matrices entries: each with its position, _kb_layout with the base
\* length and the other two with twice the base length.
C15_AllThreeRecorded ==
    [][ AtFullLayoutBlock =>
          /\ mstatus' = "scan"
          /\ mi' = mi + 4
          /\ "layout-matrices" \in DOMAIN heap'[moutput.r].val
          /\ DeepVal(heap', moutput).m["layout-matrices"] =
                Tree((KbLayout :> MatrixRecord(KbLayout, 1))
                  @@ (KbLayoutPress :> MatrixRecord(KbLayoutPress, 2))
                  @@ (KbLayoutRelease :> MatrixRecord(KbLayoutRelease, 2)))
      ]_vars

\* C17: parse_mapfile reads the file with one cursor that only moves forward:
\* the line a turn tests is the first one not read yet, a turn on a
\* keyboard-function trigger that does not fail reads that line and the next
\* 2, one on a layout trigger that line and the next 3, any other turn one
\* line, so the next test is on the line after the window and no line of a
\* window is tested as a trigger.
C17_OneForwardCursor ==
    [][ /\ mi' >= mi
        /\ mi' <= Len(mlines)
        /\ mi' > mi => mline' = mlines[mi + 1]
        /\ (mstatus' = "scan" /\ mi < Len(mlines)) =>
              mi' = mi + (IF IsKbfunTrigger(mlines[mi + 1]) THEN 3
                          ELSE IF IsLayoutTrigger(mlines[mi + 1]) THEN 4
                          ELSE 1)
      ]_vars

\* A keyboard-function block was read whose line of hex tokens is itself a
\* '.text.kbfun_' line, and the scan goes on after the block.
C17_Witness ==
    /\ mstatus = "scan"
    /\ mi >= 3
    /\ mi < Len(mlines)
    /\ mline = mlines[mi - 2]
    /\ IsKbfunTrigger(mline)
    /\ IsKbfunTrigger(mlines[mi - 1])
    /\ "keyboard-functions" \in DOMAIN heap[moutput.r].val

-----------------------------------------------------------------------------
(* Properties of the two scans *)

\* The next line of the map file is a trigger line and the file ends before
\* the lines its block needs: 2 after a keyboard-function trigger, 3 after a
\* layout trigger.
AtTruncatedBlock ==
    /\ mstatus = "scan"
    /\ mi < Len(mlines)
    /\ \/ /\ IsKbfunTrigger(mlines[mi + 1])
          /\ Len(mlines) - (mi + 1) < 2
       \/ /\ ~IsKbfunTrigger(mlines[mi + 1])
          /\ IsLayoutTrigger(mlines[mi + 1])
          /\ Len(mlines) - (mi + 1) < 3

\* The next line of the open source file is '/*' and no line after it is '*/'.
AtUnclosedComment ==
    /\ sstatus = "scan"
    /\ si < Len(sfiles[sf])
    /\ strip(sfiles[sf][si + 1]) = CommentOpen
    /\ \A j \in (si + 2) .. Len(sfiles[sf]) : strip(sfiles[sf][j]) # CommentClose

\* C20: when the input ends inside a lookahead (fewer than 2 lines after a
\* keyboard-function trigger, fewer than 3 after a layout trigger, or no '*/'
\* line after a '/*' line), the scan ends in an exception: the turn adds
\* nothing to the output, and a scan that raised takes no further step, so it
\* never returns what it had accumulated.
C20_TruncatedInputFails ==
    [][ /\ AtTruncatedBlock => (mstatus' \notin {"scan", "done"} /\ heap' = heap)
        /\ AtUnclosedComment =>
              (sstatus' \notin {"walk", "scan", "done"} /\ heap' = heap)
        /\ mstatus' # mstatus => mstatus = "scan"
        /\ sstatus' # sstatus => sstatus \in {"walk", "scan"}
      ]_vars

\* The source scan raised at the end of a file inside a comment block, after
\* it had recorded a function.
C20_Witness ==
    /\ sstatus = "StopIteration"
    /\ si = Len(sfiles[sf])
    /\ "keyboard-functions" \in DOMAIN heap[soutput.r].val

-----------------------------------------------------------------------------
(* Properties of main *)

\* the trees of ts, a function from the order of merging, that hold key k
Holders(ts, k) == {j \in DOMAIN ts : k \in DOMAIN ts[j].m}

\* The value u that the final tree holds at a path keeps what the mappings ts
\* that the partial trees hold at that path had: every key of each of them,
\* under it the scalar of the last tree that holds the key, and under a key
\* that holds a mapping the same again, one level down.
RECURSIVE KeepsAll(_, _)
KeepsAll(u, ts) ==
    /\ IsTree(u)
    /\ \A i \in DOMAIN ts : \A k \in DOMAIN ts[i].m :
          /\ k \in DOMAIN u.m
          /\ IF IsTree(ts[i].m[k])
             THEN KeepsAll(u.m[k],
                           [j \in {h \in Holders(ts, k) : IsTree(ts[h].m[k])} |->
                              ts[j].m[k]])
             ELSE ~IsTree(ts[Greatest(Holders(ts, k))].m[k])
                     => u.m[k] = ts[Greatest(Holders(ts, k))].m[k]

\* C3: once main has merged the static metadata, the map-file output, the
\* source-scan output and the derived fields into output, every key that one
\* of the four dictionaries held at some path is in output at that path, and
\* a scalar leaf of output has the value of the last of the four that holds a
\* scalar there.
C3_AssemblyKeepsEveryKey ==
    pc \in {"print", "done"} =>
        /\ Len(parts) = 4
        /\ KeepsAll(DeepVal(heap, report), [j \in 1 .. 4 |-> parts[j]])

\* The assembly is over and the map file and the source code gave records for
\* a common function name.
C3_Witness ==
    /\ pc = "done"
    /\ Len(parts) = 4
    /\ "keyboard-functions" \in DOMAIN parts[2].m
    /\ "keyboard-functions" \in DOMAIN parts[3].m
    /\ (DOMAIN parts[2].m["keyboard-functions"].m)
         \cap (DOMAIN parts[3].m["keyboard-functions"].m) # {}

\* the function names a tree holds under keyboard-functions
KbfunNames(t) ==
    IF "keyboard-functions" \in DOMAIN t.m
    THEN DOMAIN t.m["keyboard-functions"].m
    ELSE {}

KbfunRecord(t, name) == t.m["keyboard-functions"].m[name]

\* the names that both the map file and the source code gave
CommonNames == KbfunNames(parts[2]) \cap KbfunNames(parts[3])

\* the one record of a common name: position and length as the map file gave
\* them, comments as the source code gave them
JoinedRecord(name) ==
    Tree(("position" :> KbfunRecord(parts[2], name).m["position"])
      @@ ("length" :> KbfunRecord(parts[2], name).m["length"])
      @@ ("comments" :> KbfunRecord(parts[3], name).m["comments"]))

\* C11: for every function name that both the map file and the source code
\* gave, the printed tree holds one record with the position and length of the
\* map file and the comments of the source code, and the merge of the source
\* scan's output leaves every position and length recorded before as it was.
C11_OneRecordPerName ==
    /\ [](pc = "done" =>
            \A name \in CommonNames : KbfunRecord(printed, name) = JoinedRecord(name))
    /\ [][ (pc = "source" /\ pc' = "derived") =>
             \A name \in KbfunNames(DeepVal(heap, report)) :
                \A k \in {"position", "length"} :
                   /\ name \in KbfunNames(DeepVal(heap', report'))
                   /\ k \in DOMAIN KbfunRecord(DeepVal(heap', report'), name).m
                   /\ KbfunRecord(DeepVal(heap', report'), name).m[k]
                        = KbfunRecord(DeepVal(heap, report), name).m[k] ]_vars

\* A tree was printed that holds a record of a name that both passes gave.
C11_Witness ==
    /\ pc = "done"
    /\ CommonNames # {}
    /\ \E name \in CommonNames :
          DOMAIN KbfunRecord(printed, name).m = {"position", "length", "comments"}

\* the number under miscellaneous / number-of-layers of a tree
NumberOfLayers(t) == t.m["miscellaneous"].m["number-of-layers"].v

NoLayoutLine == \A i \in 1 .. Len(args.map) : ~IsLayoutTrigger(args.map[i])

HasNumberOfLayers(t) ==
    /\ "miscellaneous" \in DOMAIN t.m
    /\ "number-of-layers" \in DOMAIN t.m["miscellaneous"].m

\* C13: when the merged tree holds no _kb_layout record, as when the map file
\* has no layout trigger line, the derived-field step fails with an error:
\* number-of-layers is never set, to zero or to anything else, and nothing is
\* printed.
C13_MissingLayoutFails ==
    /\ [][ (pc = "derived" /\ ~HasLayoutLength(DeepVal(heap, report)))
             => (pc' = "KeyError" /\ heap' = heap /\ printed' = NoValue) ]_vars
    /\ [](NoLayoutLine =>
            /\ pc = "derived" => ~HasLayoutLength(DeepVal(heap, report))
            /\ ~HasNumberOfLayers(DeepVal(heap, report))
            /\ pc \notin {"print", "done"})

\* The derived-field step failed for a map file with keyboard functions and no
\* layout matrices.
C13_Witness ==
    /\ pc = "KeyError"
    /\ Len(parts) = 3
    /\ "keyboard-functions" \in DOMAIN parts[2].m
    /\ "layout-matrices" \notin DOMAIN parts[2].m

\* the steps of main
MainSteps == {"static", "mapfile", "source", "derived", "print"}

\* C14: a tree is printed only when the static metadata, the map-file output,
\* the source-scan output and the derived fields have all been built and
\* merged without an exception, and it is output as it then stands; a run in
\* which a step raises prints nothing and takes no further step.
C14_PrintedOnlyAfterAllSteps ==
    /\ [](printed # NoValue =>
            /\ pc = "done"
            /\ Len(parts) = 4
            /\ printed = DeepVal(heap, report))
    /\ [](pc \notin MainSteps \cup {"done"} => printed = NoValue)
    /\ [][(pc \in MainSteps)]_vars

\* The source scan raised after the static metadata and the map-file output
\* had been merged, and nothing was printed.
C14_Witness ==
    /\ pc = "StopIteration"
    /\ Len(parts) = 2
    /\ "keyboard-functions" \in DOMAIN DeepVal(heap, report).m
    /\ printed = NoValue

\* the names that the source code gave and the map file did not
SourceOnlyNames == KbfunNames(parts[3]) \ KbfunNames(parts[2])

\* C19: a function name that the source scan gave and no trigger of the map
\* file did has a keyboard-functions entry in the printed tree, and the entry
\* holds comments and neither position nor length.
C19_SourceOnlyEntry ==
    pc = "done" =>
        \A name \in SourceOnlyNames :
           /\ name \in KbfunNames(printed)
           /\ DOMAIN KbfunRecord(printed, name).m = {"comments"}
           /\ KbfunRecord(printed, name) = KbfunRecord(parts[3], name)

\* A tree was printed for a source directory that declares a function the map
\* file does not hold, next to one it holds.
C19_Witness ==
    /\ pc = "done"
    /\ SourceOnlyNames # {}
    /\ CommonNames # {}

-----------------------------------------------------------------------------
(* Properties of dict_merge *)

\* C1: a merge never changes its right-hand argument: after dict_merge(a, b)
\* and any later merge into the same accumulator, the contents of b are, at
\* every depth, what they were when b was built.
C1_AddendNeverChanged ==
    (IsTree(a0) /\ IsTree(b0)) => DeepVal(heap, b) = b0

\* C2: merging the same addend again changes nothing: every repeated
\* dict_merge(result, B) leaves the contents of the result as they were after
\* the first dict_merge(A, B).
C2_RepeatedMergeIdempotent ==
    \A i \in 1 .. (Len(res) - 1) : res[i + 1] = res[i]

\* The addend was merged twice and a non-empty sub-mapping of B is stored, as
\* the same object, inside the result.
C2_Witness ==
    /\ Len(res) >= 2
    /\ IsDict(a) /\ IsDict(b) /\ a # b
    /\ \E k \in DOMAIN heap[b.r].val :
        /\ k \in DOMAIN heap[a.r].val
        /\ IsDict(heap[b.r].val[k])
        /\ heap[a.r].val[k] = heap[b.r].val[k]
        /\ heap[heap[b.r].val[k].r].ord # <<>>

\* The contents of two mappings with no top-level key in common, put together.
DisjointUnion(da, db) ==
    [t |-> "d",
     m |-> [k \in (DOMAIN da.m) \cup (DOMAIN db.m) |->
              IF k \in DOMAIN da.m THEN da.m[k] ELSE db.m[k]]]

DisjointInputs ==
    /\ IsTree(a0) /\ IsTree(b0)
    /\ (DOMAIN a0.m) \cap (DOMAIN b0.m) = {}

\* C4: for mappings A and B with disjoint top-level key sets, dict_merge(A, B)
\* has exactly the keys of A and of B, each with the value of its source.
C4_DisjointMergeIsUnion ==
    (DisjointInputs /\ Len(res) >= 1) => res[1] = DisjointUnion(a0, b0)

\* Both mappings have keys, none in common, and the merge has been made.
C4_Witness ==
    /\ DisjointInputs
    /\ DOMAIN a0.m # {} /\ DOMAIN b0.m # {}
    /\ Len(res) >= 1

\* The right-biased deep merge of two values, on their contents.
RECURSIVE DeepMerge(_, _)
DeepMerge(x, y) ==
    IF ~IsTree(x) \/ ~IsTree(y) THEN y
    ELSE [t |-> "d",
          m |-> [k \in (DOMAIN x.m) \cup (DOMAIN y.m) |->
                   IF k \notin DOMAIN y.m THEN x.m[k]
                   ELSE IF k \notin DOMAIN x.m THEN y.m[k]
                   ELSE IF IsTree(x.m[k]) /\ IsTree(y.m[k])
                   THEN DeepMerge(x.m[k], y.m[k])
                   ELSE y.m[k]]]

\* C18: dict_merge(a, b) is the right-biased deep merge: b when a or b is not
\* a mapping; otherwise, for each key of b, the merge of the two values when
\* both are mappings and b's value in every other case, and a's value for the
\* keys that only a has.
C18_IsDeepMerge ==
    Len(res) >= 1 => res[1] = DeepMerge(a0, b0)

\* Two mappings were merged that hold mappings under a common key, and the
\* result is neither of them.
C18_Witness ==
    /\ Len(res) >= 1
    /\ IsTree(a0) /\ IsTree(b0)
    /\ \E k \in (DOMAIN a0.m) \cap (DOMAIN b0.m) :
          IsTree(a0.m[k]) /\ IsTree(b0.m[k])
    /\ res[1] # a0
    /\ res[1] # b0

====
